---- MODULE Spec2Model ----
(***************************************************************************)
(* MindMap: the Gold relationship graph builder (A2/graph_worker.py) and   *)
(* the cache-first related-papers resolver (A2/semantic_search_worker.py). *)
(*                                                                         *)
(* Encodings.  Strengths are kept in tenths (1.0 is 10, 0.9 is 9, ...).    *)
(* A nullable column is a record [isnull, items] or [isnull, vec].  An     *)
(* ss_paper_id of 0 is a citation without one (None or empty: both are     *)
(* falsy in `if ss_paper_id:`).  A paper_id of 0 is "no paper id" (None    *)
(* and 0 are both falsy in `if paper_id:`).                                *)
(* The connections are opened without an autocommit argument, so the       *)
(* connector's default holds: every statement is committed as it runs and  *)
(* closing the connection after an exception undoes nothing.               *)
(***************************************************************************)
EXTENDS Integers, Sequences, FiniteSets, Bags, TLC

VARIABLES silver, gold, papers, op, run, scholar

vars == <<silver, gold, papers, op, run, scholar>>

\* Bounds of the model.
NPapers == 2
MaxEntries == 3
MaxBulk == 2

Max(a, b) == IF a >= b THEN a ELSE b
Min(a, b) == IF a <= b THEN a ELSE b

\* The orders in which a SELECT without ORDER BY may return the rows S.
Orders(S) ==
    {s \in [1..Cardinality(S) -> S] : \A i, j \in 1..Cardinality(S) : i # j => s[i] # s[j]}

NullList == [isnull |-> TRUE, items |-> <<>>]
List(s) == [isnull |-> FALSE, items |-> s]
\* Python truthiness of a list-or-None value.
Truthy(l) == ~l.isnull /\ l.items # <<>>

(***************************************************************************)
(* MINDMAP_PROD.SILVER.SILVER_PAPERS, as the graph builder reads it.       *)
(***************************************************************************)
PaperIds == 1..NPapers
\* Paper i carries ss_id i; UnknownSs is the ss id of no stored paper.
UnknownSs == NPapers + 1
\* The two ss_ids hard-coded in _insert_hardcoded_test_papers.
TestSsIds == <<NPapers + 2, NPapers + 3>>

CiteVals == 0..UnknownSs
Entries ==
    [owner : PaperIds, kind : {"cite"}, val : CiteVals]
        \cup [owner : PaperIds, kind : {"sim"}, val : PaperIds]
EntryKey(e) == 2 * e.owner + (IF e.kind = "sim" THEN 1 ELSE 0)
Pools ==
    UNION {{s \in [1..n -> Entries] :
                \A i, j \in 1..n : i < j => EntryKey(s[i]) <= EntryKey(s[j])} :
           n \in 0..MaxEntries}

RECURSIVE ColumnOf(_, _, _, _)
ColumnOf(pool, p, kind, i) ==
    IF i > Len(pool) THEN <<>>
    ELSE IF pool[i].owner = p /\ pool[i].kind = kind
         THEN <<IF kind = "cite" THEN [ss_paper_id |-> pool[i].val] ELSE pool[i].val>>
                  \o ColumnOf(pool, p, kind, i + 1)
         ELSE ColumnOf(pool, p, kind, i + 1)

Column(pool, p, kind, emptyIsNull) ==
    LET items == ColumnOf(pool, p, kind, 1)
    IN IF items = <<>> /\ emptyIsNull THEN NullList ELSE List(items)

Corpus(pool, emptyIsNull) ==
    [p \in PaperIds |->
        [ss_id |-> p,
         citation_list |-> Column(pool, p, "cite", emptyIsNull),
         similar_embeddings_ids |-> Column(pool, p, "sim", emptyIsNull)]]

(***************************************************************************)
(* MINDMAP_PROD.GOLD.GOLD_CONNECTIONS: a bag of rows, because the table    *)
(* declares nothing that would keep two equal rows apart.                  *)
(***************************************************************************)
Edge(s, t, ty, st) ==
    [source_paper_id |-> s, target_paper_id |-> t, relationship_type |-> ty, strength |-> st]
Triple(e) == <<e.source_paper_id, e.target_paper_id, e.relationship_type>>
\* Number of stored rows that carry the triple tr.
Stored(g, tr) ==
    LET rows == {e \in BagToSet(g) : Triple(e) = tr}
    IN IF rows = {} THEN 0 ELSE BagCardinality([e \in rows |-> g[e]])
Matched(g, e) == Stored(g, Triple(e)) > 0

\* The names graph_worker.py binds at module level (imports, lines 4-9, and defs).
ModuleNames ==
    {"os", "snowflake", "Iterable", "List", "Optional", "Tuple", "app", "image",
     "snowflake_secret", "json", "connect_to_snowflake", "SILVER", "GOLD",
     "_fetch_papers", "_merge_relationship", "_merge_citations", "_merge_similars",
     "_normalize_ids", "_chunked", "_bulk_merge_edges", "_insert_hardcoded_test_papers",
     "build_knowledge_graph"}

\* A local that is assigned somewhere in its function but not yet.
Unbound == [bound |-> FALSE, v |-> 0]
Bound(n) == [bound |-> TRUE, v |-> n]

\* MERGE ... USING (one row) ... WHEN NOT MATCHED THEN INSERT
MergeRelationshipUpsert(g, source_id, target_id, rel_type, strength) ==
    LET row == Edge(source_id, target_id, rel_type, strength)
        others == {e \in BagToSet(g) : Triple(e) # Triple(row)}
    IN [e \in others |-> g[e]] (+) SetToBag({row})

MergeRelationshipAlways(g, source_id, target_id, rel_type, strength) ==
    g (+) SetToBag({Edge(source_id, target_id, rel_type, strength)})

MergeRelationshipSymmetric(g, source_id, target_id, rel_type, strength) ==
    LET row == Edge(source_id, target_id, rel_type, strength)
        back == Edge(target_id, source_id, rel_type, strength)
    IN g (+) SetToBag({r \in {row, back} : ~Matched(g, r)})

MergeRelationship(g, source_id, target_id, rel_type, strength) ==
    LET row == Edge(source_id, target_id, rel_type, strength)
    IN IF Matched(g, row) THEN g ELSE g (+) SetToBag({row})

\* The source rows of the citation MERGE: one per Silver paper whose ss_id matches.
CitationSourceRows(sv, source_id, ss_paper_id) ==
    {Edge(source_id, id, "CITES", 10) : id \in {i \in DOMAIN sv : sv[i].ss_id = ss_paper_id}}

MergeCitation(g, sv, source_id, ss_paper_id) ==
    g (+) SetToBag({row \in CitationSourceRows(sv, source_id, ss_paper_id) : ~Matched(g, row)})

\* One executed MERGE statement, as the run's log keeps it.
Stmt(rel, s, key, idx, st) ==
    [rel |-> rel, source_id |-> s, key |-> key, idx |-> idx, strength |-> st]

RECURSIVE MergeCitationsFrom(_, _, _, _, _)
MergeCitationsFrom(st, sv, source_id, citations, i) ==
    IF i > Len(citations) THEN st
    ELSE LET ss_paper_id == citations[i].ss_paper_id
             next == IF ss_paper_id # 0
                     THEN [st EXCEPT
                             !.gold = MergeCitation(@, sv, source_id, ss_paper_id),
                             !.log = Append(@, Stmt("CITES", source_id, ss_paper_id, i - 1, 10))]
                     ELSE st
         IN MergeCitationsFrom(next, sv, source_id, citations, i + 1)

MergeCitations(st, sv, source_id, citations) ==
    MergeCitationsFrom(st, sv, source_id, citations, 1)

\* strength = max(0.0, 1.0 - (idx * 0.1)), in tenths
StrengthUnclamped(idx) == 10 - idx

Strength(idx) == Max(0, 10 - idx)

\* `added` on entry to _merge_similars: the function assigns it (added += ...)
\* so it is a local, and nothing gives it a value before the loop.
AddedOnEntry == Unbound

RECURSIVE MergeSimilarsFrom(_, _, _, _, _)
MergeSimilarsFrom(st, source_id, similar_ids, i, added) ==
    IF i > Len(similar_ids)
    THEN \* return added
         IF added.bound THEN st ELSE [st EXCEPT !.exc = "UnboundLocalError"]
    ELSE LET idx == i - 1
             strength == Strength(idx)
             merged == [st EXCEPT
                          !.gold = MergeRelationship(@, source_id, similar_ids[i], "SIMILAR", strength),
                          !.log = Append(@, Stmt("SIMILAR", source_id, similar_ids[i], idx, strength))]
             rowcount == BagCardinality(merged.gold) - BagCardinality(st.gold)
         IN \* added += cur.rowcount
            IF added.bound
            THEN MergeSimilarsFrom(merged, source_id, similar_ids, i + 1, Bound(added.v + rowcount))
            ELSE [merged EXCEPT !.exc = "UnboundLocalError"]

MergeSimilars(st, source_id, similar_ids) ==
    MergeSimilarsFrom(st, source_id, similar_ids, 1, AddedOnEntry)

\* INSERT INTO SILVER ("ss_id", "title") SELECT ... WHERE NOT EXISTS (same ss_id),
\* once per hard-coded test paper; the identity column gives the next id.
RECURSIVE InsertTestPapersFrom(_, _)
InsertTestPapersFrom(sv, i) ==
    IF i > Len(TestSsIds) THEN sv
    ELSE IF \E id \in DOMAIN sv : sv[id].ss_id = TestSsIds[i]
         THEN InsertTestPapersFrom(sv, i + 1)
         ELSE LET newId == Cardinality(DOMAIN sv) + 1
                  row == [ss_id |-> TestSsIds[i],
                          citation_list |-> NullList,
                          similar_embeddings_ids |-> NullList]
              IN InsertTestPapersFrom(
                     [id \in DOMAIN sv \cup {newId} |-> IF id = newId THEN row ELSE sv[id]],
                     i + 1)

InsertHardcodedTestPapers(sv) == InsertTestPapersFrom(sv, 1)

\* The ids of the rows _fetch_papers selects.
FetchPapers(sv, paper_id) ==
    IF paper_id # 0
    THEN {id \in DOMAIN sv : id = paper_id}
    ELSE {id \in DOMAIN sv :
            ~sv[id].citation_list.isnull \/ ~sv[id].similar_embeddings_ids.isnull}

\* The body of the `for pid, citations, similar_ids in papers` loop.
ProcessPaper(st, sv, pid) ==
    LET citations == sv[pid].citation_list
        similar_ids == sv[pid].similar_embeddings_ids
        cited == IF Truthy(citations)
                 THEN MergeCitations(st, sv, pid, citations.items)
                 ELSE st
    IN IF Truthy(similar_ids)
       THEN MergeSimilars([cited EXCEPT !.simCalls = Append(@, pid)], pid, similar_ids.items)
       ELSE cited

RECURSIVE ProcessPapers(_, _, _, _)
ProcessPapers(st, sv, rows, i) ==
    IF i > Len(rows) \/ st.exc # "none" THEN st
    ELSE ProcessPapers(
             [ProcessPaper(st, sv, rows[i]) EXCEPT !.processed = Append(@, rows[i])],
             sv, rows, i + 1)

\* conn.commit(), then the report line, which reads the name `added`.
Report(st) ==
    IF st.exc # "none" THEN st
    ELSE IF "added" \in ModuleNames THEN st ELSE [st EXCEPT !.exc = "NameError"]

StartOfRun(g) ==
    [gold |-> g, log |-> <<>>, simCalls |-> <<>>, processed |-> <<>>, exc |-> "none"]

\* build_knowledge_graph(paper_id): one whole invocation.
BuildKnowledgeGraph(paper_id) ==
    LET sv == InsertHardcodedTestPapers(silver)
    IN \E rows \in Orders(FetchPapers(sv, paper_id)) :
         LET end == Report(ProcessPapers(StartOfRun(gold), sv, rows, 1))
         IN /\ silver' = sv
            /\ gold' = end.gold
            /\ op' = [name |-> "build_knowledge_graph",
                      paper_id |-> paper_id,
                      rows |-> rows,
                      log |-> end.log,
                      simCalls |-> end.simCalls,
                      processed |-> end.processed,
                      exc |-> end.exc,
                      before |-> gold]
            /\ UNCHANGED <<scholar, papers, run>>

\* _chunked: the generator body calls islice, a name the module never binds.
RECURSIVE ChunksOf(_, _)
ChunksOf(s, size) ==
    IF s = <<>> THEN <<>>
    ELSE <<SubSeq(s, 1, Min(size, Len(s)))>>
             \o ChunksOf(SubSeq(s, Min(size, Len(s)) + 1, Len(s)), size)

Chunked(s, size) ==
    IF "islice" \in ModuleNames
    THEN [exc |-> "none", chunks |-> ChunksOf(s, size)]
    ELSE [exc |-> "NameError", chunks |-> <<>>]

ChunkSize == 500

\* MERGE ... USING (SELECT ... FROM VALUES chunk) ... WHEN NOT MATCHED THEN INSERT:
\* every source row that matches no row stored before the statement is inserted.
BulkMergeStatement(g, chunk) ==
    LET unmatched == SelectSeq(chunk, LAMBDA row : ~Matched(g, row))
    IN g (+) [e \in {unmatched[i] : i \in 1..Len(unmatched)} |->
                Cardinality({i \in 1..Len(unmatched) : unmatched[i] = e})]

RECURSIVE BulkMergeChunks(_, _, _)
BulkMergeChunks(st, chunks, i) ==
    IF i > Len(chunks) THEN st
    ELSE LET g == BulkMergeStatement(st.gold, chunks[i])
             rowcount == BagCardinality(g) - BagCardinality(st.gold)
         IN BulkMergeChunks([st EXCEPT !.gold = g,
                                       !.total = @ + rowcount,
                                       !.writes = @ + 1],
                            chunks, i + 1)

\* _bulk_merge_edges(cur, edges), with the MERGE of each chunk committed as it runs.
BulkMerge(g, edges) ==
    IF edges = <<>>
    THEN [gold |-> g, total |-> 0, writes |-> 0, exc |-> "none"]
    ELSE LET c == Chunked(edges, ChunkSize)
         IN IF c.exc # "none"
            THEN [gold |-> g, total |-> 0, writes |-> 0, exc |-> c.exc]
            ELSE BulkMergeChunks([gold |-> g, total |-> 0, writes |-> 0, exc |-> "none"],
                                 c.chunks, 1)

\* The candidate edges the model submits to _bulk_merge_edges.
BulkEdges ==
    {Edge(1, 2, "SIMILAR", 10), Edge(1, 2, "SIMILAR", 9), Edge(1, 1, "SIMILAR", 10)}
BulkInputs == UNION {[1..n -> BulkEdges] : n \in 0..MaxBulk}

BulkMergeEdges(edges) ==
    LET end == BulkMerge(gold, edges)
    IN /\ gold' = end.gold
       /\ op' = [name |-> "_bulk_merge_edges",
                 edges |-> edges,
                 returned |-> end.total,
                 writes |-> end.writes,
                 exc |-> end.exc,
                 before |-> gold]
       /\ UNCHANGED <<scholar, silver, papers, run>>

\* The arguments the model passes to _merge_relationship: SIMILAR edges
\* between the stored papers, with the strengths of the first two ranks.
MergeInputs ==
    {Edge(s, t, "SIMILAR", Strength(idx)) : s \in PaperIds, t \in PaperIds, idx \in 0..1}

\* _merge_relationship(cur, source_id, target_id, rel_type, strength): one call.
MergeRelationshipCall(source_id, target_id, rel_type, strength) ==
    LET g == MergeRelationship(gold, source_id, target_id, rel_type, strength)
    IN /\ gold' = g
       /\ op' = [name |-> "_merge_relationship",
                 edge |-> Edge(source_id, target_id, rel_type, strength),
                 rowcount |-> BagCardinality(g) - BagCardinality(gold),
                 before |-> gold]
       /\ UNCHANGED <<scholar, silver, papers, run>>

NoOp == [name |-> "none"]
\* The citation graph of Semantic Scholar, where no operation consults it.
NoScholar == {}
\* No invocation is in progress: the operations run one at a time.
NoRuns == <<>>
NoPapers == <<>>

InitGraph ==
    /\ silver \in {Corpus(pool, emptyIsNull) : pool \in Pools, emptyIsNull \in BOOLEAN}
    /\ gold = EmptyBag
    /\ papers = NoPapers
    /\ op = NoOp
    /\ scholar = NoScholar
    /\ run = NoRuns

NextGraph ==
    \/ \E paper_id \in {0} \cup PaperIds : BuildKnowledgeGraph(paper_id)
    \/ \E edges \in BulkInputs : BulkMergeEdges(edges)

SpecGraph == InitGraph /\ [][NextGraph]_vars

\* The two merge functions on their own, called with arbitrary edges.
InitMerge ==
    /\ silver = <<>>
    /\ gold = EmptyBag
    /\ papers = NoPapers
    /\ op = NoOp
    /\ scholar = NoScholar
    /\ run = NoRuns

NextMerge ==
    \/ \E e \in MergeInputs :
         MergeRelationshipCall(e.source_paper_id, e.target_paper_id,
                               e.relationship_type, e.strength)
    \/ \E edges \in BulkInputs : BulkMergeEdges(edges)

SpecMerge == InitMerge /\ [][NextMerge]_vars

(***************************************************************************)
(* Concurrent invocations of build_knowledge_graph(paper_id) for one       *)
(* paper.  Each invocation has its own connection; the store runs one      *)
(* statement at a time (a MERGE is a single statement, committed as it     *)
(* runs), so a step is one statement of one invocation together with the   *)
(* Python code up to the next statement.                                   *)
(***************************************************************************)
NBuilders == 2
Builders == 1..NBuilders

IdleBuilder ==
    [pc |-> "idle", paper_id |-> 0, citations |-> NullList, similar_ids |-> NullList,
     i |-> 0, log |-> <<>>, exc |-> "none", before |-> EmptyBag,
     reported |-> Unbound]

\* Where the loop body goes once the citations are done (or skipped).
AfterCitations(similar_ids) == IF Truthy(similar_ids) THEN "similars" ELSE "commit"

\* _insert_hardcoded_test_papers and _fetch_papers of one invocation: the row
\* of paper_id is read, and the loop body is entered with its two lists.
BuilderStart(b, paper_id) ==
    LET sv == InsertHardcodedTestPapers(silver)
        citations == sv[paper_id].citation_list
        similar_ids == sv[paper_id].similar_embeddings_ids
    IN /\ run[b].pc = "idle"
       /\ \A c \in Builders : run[c].pc # "idle" => run[c].paper_id = paper_id
       /\ FetchPapers(sv, paper_id) = {paper_id}
       /\ silver' = sv
       /\ run' = [run EXCEPT ![b] =
                    [pc |-> IF Truthy(citations) THEN "citations"
                            ELSE AfterCitations(similar_ids),
                     paper_id |-> paper_id, citations |-> citations,
                     similar_ids |-> similar_ids, i |-> 1, log |-> <<>>,
                     exc |-> "none", before |-> gold, reported |-> Unbound]]
       /\ UNCHANGED <<scholar, gold, papers, op>>

\* One iteration of `for citation in citations` in _merge_citations.
BuilderCitation(b) ==
    LET r == run[b]
        ss_paper_id == r.citations.items[r.i].ss_paper_id
        last == r.i = Len(r.citations.items)
    IN /\ r.pc = "citations"
       /\ gold' = IF ss_paper_id # 0
                  THEN MergeCitation(gold, silver, r.paper_id, ss_paper_id)
                  ELSE gold
       /\ run' = [run EXCEPT ![b] =
                    [r EXCEPT
                       !.log = IF ss_paper_id # 0
                               THEN Append(@, Stmt("CITES", r.paper_id, ss_paper_id, r.i - 1, 10))
                               ELSE @,
                       !.i = IF last THEN 1 ELSE r.i + 1,
                       !.pc = IF last THEN AfterCitations(r.similar_ids) ELSE "citations"]]
       /\ UNCHANGED <<scholar, silver, papers, op>>

\* One iteration of `for idx, sim_id in enumerate(similar_ids)` in
\* _merge_similars: the MERGE, then `added += cur.rowcount`.
BuilderSimilar(b) ==
    LET r == run[b]
        idx == r.i - 1
        sim_id == r.similar_ids.items[r.i]
        last == r.i = Len(r.similar_ids.items)
    IN /\ r.pc = "similars"
       /\ gold' = MergeRelationship(gold, r.paper_id, sim_id, "SIMILAR", Strength(idx))
       /\ run' = [run EXCEPT ![b] =
                    [r EXCEPT
                       !.log = Append(@, Stmt("SIMILAR", r.paper_id, sim_id, idx, Strength(idx))),
                       !.i = r.i + 1,
                       !.exc = IF AddedOnEntry.bound THEN "none" ELSE "UnboundLocalError",
                       !.pc = IF ~AddedOnEntry.bound THEN "done"
                              ELSE IF last THEN "commit" ELSE "similars"]]
       /\ UNCHANGED <<scholar, silver, papers, op>>

\* conn.commit() and the report line that ends the invocation.
BuilderCommit(b) ==
    LET r == run[b]
    IN /\ r.pc = "commit"
       /\ run' = [run EXCEPT ![b] = [r EXCEPT !.exc = Report(r).exc, !.pc = "done"]]
       /\ UNCHANGED <<scholar, silver, gold, papers, op>>

InitBuilders ==
    /\ silver \in {Corpus(pool, emptyIsNull) : pool \in Pools, emptyIsNull \in BOOLEAN}
    /\ gold = EmptyBag
    /\ papers = NoPapers
    /\ op = NoOp
    /\ scholar = NoScholar
    /\ run = [b \in Builders |-> IdleBuilder]

NextBuilders ==
    \/ \E b \in Builders, paper_id \in PaperIds : BuilderStart(b, paper_id)
    \/ \E b \in Builders : BuilderCitation(b)
    \/ \E b \in Builders : BuilderSimilar(b)
    \/ \E b \in Builders : BuilderCommit(b)

SpecBuilders == InitBuilders /\ [][NextBuilders]_vars

\* The store fails under an invocation: its next cur.execute (or conn.commit)
\* raises the connector's error.  build_knowledge_graph has a `finally` and no
\* `except`, so the error leaves the function as it is: the caller gets the
\* exception and no return value.  The statements that were executed stay
\* (each statement commits on its own).  `reported` is the edge count handed
\* to the caller, which no path of the function binds.
BuilderStoreFailure(b) ==
    LET r == run[b]
    IN /\ r.pc \in {"citations", "similars", "commit"}
       /\ run' = [run EXCEPT ![b] = [r EXCEPT !.exc = "StoreError", !.pc = "done"]]
       /\ UNCHANGED <<scholar, silver, gold, papers, op>>

NextStoreFailure ==
    \/ NextBuilders
    \/ \E b \in Builders : BuilderStoreFailure(b)

SpecStoreFailure == InitBuilders /\ [][NextStoreFailure]_vars

(***************************************************************************)
(* The citation data from its source to the graph: transform_to_silver     *)
(* (A2/transformation.py) stores a paper's citation_list, and              *)
(* build_knowledge_graph turns it into CITES edges.  scholar is the        *)
(* citation graph of Semantic Scholar: the pairs <<citing, cited>> of ss   *)
(* ids.  Paper i has ss id i; UnknownSs is a paper that is not stored.     *)
(***************************************************************************)
ScholarPairs ==
    {pr \in (1..UnknownSs) \X PaperIds : pr[1] # pr[2]}

\* fetch_connections_ss(arxiv_id, mode): the records of the "references"
\* endpoint (mode 0: the papers this one cites) or of the "citations"
\* endpoint (any other mode: the papers that cite this one); None when the
\* request fails, which the caller turns into an empty list.
ConnectionsSs(g, ss_id, mode) ==
    LET found == IF mode = 0
                 THEN {pr[2] : pr \in {x \in g : x[1] = ss_id}}
                 ELSE {pr[1] : pr \in {x \in g : x[2] = ss_id}}
    IN {<<>>} \cup {[i \in 1..Len(o) |-> [ss_paper_id |-> o[i]]] : o \in Orders(found)}

\* cites_task = fetch_connections_ss.local(arxiv_id, mode=1)
CitesMode == 1

\* transform_to_silver(arxiv_id) for a stored paper: the MERGE sets the
\* row's citation_list to the fetched records.
TransformToSilver(p) ==
    \E cites_data \in ConnectionsSs(scholar, silver[p].ss_id, CitesMode) :
        /\ silver' = [silver EXCEPT ![p].citation_list = List(cites_data)]
        /\ silver' # silver
        /\ op' = [name |-> "transform_to_silver", paper_id |-> p]
        /\ UNCHANGED <<scholar, gold, papers, run>>

\* Freshly ingested rows, before any transformation or embedding.
InitCitations ==
    /\ scholar \in SUBSET ScholarPairs
    /\ silver = [p \in PaperIds |->
                   [ss_id |-> p, citation_list |-> NullList,
                    similar_embeddings_ids |-> NullList]]
    /\ gold = EmptyBag
    /\ papers = NoPapers
    /\ op = NoOp
    /\ run = NoRuns

NextCitations ==
    \/ \E p \in PaperIds : TransformToSilver(p)
    \/ \E paper_id \in {0} \cup PaperIds : BuildKnowledgeGraph(paper_id)

SpecCitations == InitCitations /\ [][NextCitations]_vars

\* Every operation that writes the relationship store, with the citation
\* lists rewritten by transform_to_silver between the runs.
NextGrowth ==
    \/ \E p \in PaperIds : TransformToSilver(p)
    \/ \E paper_id \in {0} \cup PaperIds : BuildKnowledgeGraph(paper_id)
    \/ \E edges \in BulkInputs : BulkMergeEdges(edges)
    \/ \E e \in MergeInputs :
          MergeRelationshipCall(e.source_paper_id, e.target_paper_id,
                                e.relationship_type, e.strength)

\* Every citation between the papers is known to Semantic Scholar.
InitGrowth == InitCitations /\ scholar = ScholarPairs

SpecGrowth == InitGrowth /\ [][NextGrowth]_vars

(***************************************************************************)
(* MINDMAP_DB.PUBLIC.SILVER_PAPERS, as the related-papers resolver and the *)
(* embedding worker use it: id, embedding, similar_embddings_ids.          *)
(* Embeddings are unit vectors (normalize_embeddings=True) in the plane,   *)
(* at the angles 0..MaxAngle of an arc no longer than a half turn, so the  *)
(* cosine of two of them falls as the difference of their angles grows.    *)
(***************************************************************************)
NRows == 3
MaxAngle == 2
MaxK == 2
MaxDeleted == 1

RowIds == 1..NRows
Angles == 0..MaxAngle
NullVec == [isnull |-> TRUE, vec |-> 0]
Vec(a) == [isnull |-> FALSE, vec |-> a]
\* The abstract column: NULL, or a text; "" stands for every text that
\* .strip() leaves empty.
NullText == [isnull |-> TRUE, text |-> ""]
Text(t) == [isnull |-> FALSE, text |-> t]
Abstract == Text("abstract")
\* `abstract = (r.get("abstract") or "").strip()` ... `if not abstract:`
Blank(a) == a.isnull \/ a.text = ""

NoRow ==
    [present |-> FALSE, embedding |-> NullVec, similar_embddings_ids |-> NullList,
     abstract |-> NullText]

\* VECTOR_COSINE_SIMILARITY(a, b), up to an increasing change of scale.
Score(a, b) == MaxAngle - (IF a >= b THEN a - b ELSE b - a)

Take(s, k) == SubSeq(s, 1, Min(k, Len(s)))

\* The cache column of the row with this id; NULL when there is no such row.
CacheOf(tb, paper_id) ==
    IF tb[paper_id].present THEN tb[paper_id].similar_embddings_ids ELSE NullList

\* WITH ids(id) AS (VALUES cached_ids) SELECT ... JOIN SILVER_PAPERS s ON s.id = ids.id,
\* in whatever order the join gives: here by ascending id.
RECURSIVE HydrateJoinOrder(_, _)
HydrateJoinOrder(tb, cached_ids) ==
    LET found == {cached_ids[i] : i \in {j \in 1..Len(cached_ids) : tb[cached_ids[j]].present}}
    IN IF found = {} THEN <<>>
       ELSE LET least == CHOOSE x \in found : \A y \in found : x <= y
            IN <<least>> \o HydrateJoinOrder(
                                tb, SelectSeq(cached_ids, LAMBDA cid : cid # least))

\* The join, then the loop over cached_ids that keeps the ids the join found.
Hydrate(tb, cached_ids) ==
    SelectSeq(cached_ids, LAMBDA cid : tb[cid].present)

\* embedding IS NOT NULL, for the row with this id.
HasVector(tb, id) == tb[id].present /\ ~tb[id].embedding.isnull

\* WITH q AS (SELECT embedding AS qvec ... WHERE id = %s AND embedding IS NOT NULL)
QueryVecsAnyEmbedding(tb, paper_id) ==
    IF tb[paper_id].present THEN {tb[paper_id].embedding.vec} ELSE {}

QueryVecs(tb, paper_id) ==
    IF tb[paper_id].present /\ ~tb[paper_id].embedding.isnull
    THEN {tb[paper_id].embedding.vec}
    ELSE {}

\* FROM SILVER_PAPERS e, q WHERE e.id <> %s AND e.embedding IS NOT NULL
CandidatesWithSelf(tb, paper_id) ==
    IF QueryVecs(tb, paper_id) = {} THEN {}
    ELSE {e \in RowIds : tb[e].present /\ ~tb[e].embedding.isnull}

Candidates(tb, paper_id) ==
    IF QueryVecs(tb, paper_id) = {} THEN {}
    ELSE {e \in RowIds : tb[e].present /\ e # paper_id /\ ~tb[e].embedding.isnull}

NeighbourScore(tb, paper_id, e) ==
    LET qvec == CHOOSE v \in QueryVecs(tb, paper_id) : TRUE
    IN Score(tb[e].embedding.vec, qvec)

\* ORDER BY score DESC: every order of the candidates in which no score rises;
\* rows of equal score come in any order.
RankingsAscending(tb, paper_id) ==
    {s \in Orders(Candidates(tb, paper_id)) :
        \A i, j \in 1..Len(s) :
            i < j => NeighbourScore(tb, paper_id, s[i]) <= NeighbourScore(tb, paper_id, s[j])}

Rankings(tb, paper_id) ==
    {s \in Orders(Candidates(tb, paper_id)) :
        \A i, j \in 1..Len(s) :
            i < j => NeighbourScore(tb, paper_id, s[i]) >= NeighbourScore(tb, paper_id, s[j])}

\* What a failing store does to the cache write: the UPDATE raises (nothing
\* written), or the UPDATE runs and conn.commit() raises.
Faults == {"none", "update", "commit"}

\* `if row and row[0] is not None:` ... `if cached_ids:` -- the call is
\* served from the cache.
CacheHitResolved(tb, paper_id, k) ==
    /\ tb[paper_id].present
    /\ ~CacheOf(tb, paper_id).isnull
    /\ Hydrate(tb, Take(CacheOf(tb, paper_id).items, k)) # <<>>

CacheHitFull(tb, paper_id, k) ==
    /\ tb[paper_id].present
    /\ ~CacheOf(tb, paper_id).isnull
    /\ Take(CacheOf(tb, paper_id).items, k) # <<>>
    /\ Len(CacheOf(tb, paper_id).items) >= k

CacheHit(tb, paper_id, k) ==
    /\ tb[paper_id].present
    /\ ~CacheOf(tb, paper_id).isnull
    /\ Take(CacheOf(tb, paper_id).items, k) # <<>>

\* `if results:` and the UPDATE of the cache column of the queried paper.
WriteBackAlways(tb, paper_id, results, fault) ==
    IF tb[paper_id].present /\ fault # "update"
    THEN [tb EXCEPT ![paper_id].similar_embddings_ids = List(results)]
    ELSE tb

WriteBack(tb, paper_id, results, fault) ==
    IF results # <<>> /\ fault # "update"
    THEN [tb EXCEPT ![paper_id].similar_embddings_ids = List(results)]
    ELSE tb

\* get_related_papers(paper_id, k): one whole invocation.
GetRelatedPapers(paper_id, k) ==
    LET cache == CacheOf(papers, paper_id)
        cached_ids == Take(cache.items, k)
    IN IF CacheHit(papers, paper_id, k)
       THEN /\ op' = [name |-> "get_related_papers", paper_id |-> paper_id, k |-> k,
                      source |-> "cache", results |-> <<>>,
                      returned |-> Hydrate(papers, cached_ids),
                      exc |-> "none", fault |-> "none", cacheBefore |-> cache,
                      fresh |-> TRUE]
            /\ UNCHANGED <<scholar, silver, gold, papers, run>>
       ELSE \E ranking \in Rankings(papers, paper_id) :
              LET results == Take(ranking, k)
              IN \E fault \in IF results = <<>> THEN {"none"} ELSE Faults :
                   /\ papers' = WriteBack(papers, paper_id, results, fault)
                   /\ op' = [name |-> "get_related_papers", paper_id |-> paper_id, k |-> k,
                             source |-> "fallback", results |-> results,
                             returned |-> IF fault = "none" THEN results ELSE <<>>,
                             exc |-> IF fault = "none" THEN "none" ELSE "StoreError",
                             fault |-> fault, cacheBefore |-> cache, fresh |-> TRUE]
                   /\ UNCHANGED <<scholar, silver, gold, run>>

\* The record of the last call, once the table has changed under it.
Outdated(o) == IF o.name = "get_related_papers" THEN [o EXCEPT !.fresh = FALSE] ELSE o

\* UPDATE SILVER_PAPERS SET embedding = %s WHERE id = %s, for one row.
UpdateEmbedding(pid, emb) ==
    /\ papers[pid].present
    /\ papers[pid].embedding # Vec(emb)
    /\ papers' = [papers EXCEPT ![pid].embedding = Vec(emb)]
    /\ op' = Outdated(op)
    /\ UNCHANGED <<scholar, silver, gold, run>>

\* A paper leaves the table (the resolver must tolerate cached ids of such papers).
DeletePaper(pid) ==
    /\ papers[pid].present
    /\ Cardinality({r \in RowIds : ~papers[r].present}) < MaxDeleted
    /\ papers' = [papers EXCEPT ![pid] = NoRow]
    /\ op' = Outdated(op)
    /\ UNCHANGED <<scholar, silver, gold, run>>

NoSilver == <<>>

\* Freshly ingested rows: no embedding yet, no cached neighbours (NULL, or an
\* empty array).
InitResolver ==
    /\ \E emptyCache \in {NullList, List(<<>>)} :
         papers = [r \in RowIds |->
                     [present |-> TRUE, abstract |-> Abstract, embedding |-> NullVec,
                      similar_embddings_ids |-> emptyCache]]
    /\ silver = NoSilver
    /\ gold = EmptyBag
    /\ op = NoOp
    /\ scholar = NoScholar
    /\ run = NoRuns

NextResolver ==
    \/ \E paper_id \in RowIds, k \in 0..MaxK : GetRelatedPapers(paper_id, k)
    \/ \E pid \in RowIds, emb \in Angles : UpdateEmbedding(pid, emb)
    \/ \E pid \in RowIds : DeletePaper(pid)

SpecResolver == InitResolver /\ [][NextResolver]_vars

(***************************************************************************)
(* Concurrent writers of one paper's cache: get_related_papers            *)
(* invocations, and a job of the embedding worker (backfill_similar_ids,   *)
(* or run_embedding_batch with min_corpus_size_for_neighbors set) called   *)
(* with limit = 1.  A step is one SQL statement of one invocation with the *)
(* Python code up to the next statement; every statement is committed as   *)
(* it runs.                                                                *)
(***************************************************************************)
NResolvers == 2
NJobs == 1
Resolvers == 1..NResolvers
Jobs == (NResolvers + 1)..(NResolvers + NJobs)

IdleProc == [pc |-> "idle"]

\* UPDATE SILVER_PAPERS SET similar_embddings_ids = PARSE_JSON(ids) WHERE id = pid
WriteCacheAppending(tb, pid, ids) ==
    IF tb[pid].present
    THEN [tb EXCEPT ![pid].similar_embddings_ids = List(@.items \o ids)]
    ELSE tb

WriteCache(tb, pid, ids) ==
    IF tb[pid].present
    THEN [tb EXCEPT ![pid].similar_embddings_ids = List(ids)]
    ELSE tb

\* The record of the last cache write.
CacheWrite(by, pid, ids) ==
    [name |-> "cache_write", by |-> by, paper_id |-> pid, ids |-> ids]

\* All invocations in progress work on the same paper.
SamePaper(pid) == \A q \in DOMAIN run : run[q].pc # "idle" => run[q].paper_id = pid

\* get_related_papers: the SELECT of the cache column.
ResolverReadCache(r, paper_id, k) ==
    LET cache == CacheOf(papers, paper_id)
        cached_ids == Take(cache.items, k)
        hit == papers[paper_id].present /\ ~cache.isnull /\ cached_ids # <<>>
    IN /\ run[r].pc = "idle"
       /\ SamePaper(paper_id)
       /\ run' = [run EXCEPT ![r] =
                    [pc |-> IF hit THEN "hydrate" ELSE "query",
                     paper_id |-> paper_id, k |-> k, cached_ids |-> cached_ids,
                     results |-> <<>>, returned |-> <<>>,
                     source |-> IF hit THEN "cache" ELSE "fallback"]]
       /\ UNCHANGED <<scholar, silver, gold, papers, op>>

\* get_related_papers: the join of the cached ids, and the return.
ResolverHydrate(r) ==
    /\ run[r].pc = "hydrate"
    /\ run' = [run EXCEPT ![r] =
                 [run[r] EXCEPT !.returned = Hydrate(papers, run[r].cached_ids),
                                !.pc = "done"]]
    /\ UNCHANGED <<scholar, silver, gold, papers, op>>

\* get_related_papers: the similarity query; an empty result is returned at once.
ResolverQuery(r) ==
    /\ run[r].pc = "query"
    /\ \E ranking \in Rankings(papers, run[r].paper_id) :
         LET results == Take(ranking, run[r].k)
         IN run' = [run EXCEPT ![r] =
                      [run[r] EXCEPT !.results = results,
                                     !.returned = IF results = <<>> THEN <<>> ELSE @,
                                     !.pc = IF results = <<>> THEN "done" ELSE "write"]]
    /\ UNCHANGED <<scholar, silver, gold, papers, op>>

\* get_related_papers: the UPDATE of the cache column, the commit and the return.
ResolverWrite(r) ==
    /\ run[r].pc = "write"
    /\ papers' = WriteCache(papers, run[r].paper_id, run[r].results)
    /\ op' = CacheWrite(r, run[r].paper_id, run[r].results)
    /\ run' = [run EXCEPT ![r] =
                 [run[r] EXCEPT !.returned = run[r].results, !.pc = "done"]]
    /\ UNCHANGED <<scholar, silver, gold>>

\* backfill_similar_ids(limit=1, k): the SELECT of a row with an embedding
\* and a NULL cache.
BackfillSelect(j, pid, k) ==
    /\ run[j].pc = "idle"
    /\ SamePaper(pid)
    /\ HasVector(papers, pid)
    /\ papers[pid].similar_embddings_ids.isnull
    /\ run' = [run EXCEPT ![j] =
                 [pc |-> "compute", kind |-> "backfill", paper_id |-> pid, k |-> k,
                  sim_ids |-> <<>>]]
    /\ UNCHANGED <<scholar, silver, gold, papers, op>>

\* run_embedding_batch(limit=1, min_corpus_size_for_neighbors=1, k): the
\* SELECT of a row with a NULL embedding, which the loop keeps.
BatchFetch(j, pid, k) ==
    /\ run[j].pc = "idle"
    /\ SamePaper(pid)
    /\ papers[pid].present /\ papers[pid].embedding.isnull
    /\ ~Blank(papers[pid].abstract)
    /\ run' = [run EXCEPT ![j] =
                 [pc |-> "embed", kind |-> "batch", paper_id |-> pid, k |-> k,
                  sim_ids |-> <<>>]]
    /\ UNCHANGED <<scholar, silver, gold, papers, op>>

\* run_embedding_batch: model.encode, _update_embeddings, commit, count.
BatchEmbed(j, emb) ==
    /\ run[j].pc = "embed"
    /\ papers' = IF papers[run[j].paper_id].present
                 THEN [papers EXCEPT ![run[j].paper_id].embedding = Vec(emb)]
                 ELSE papers
    /\ run' = [run EXCEPT ![j] = [run[j] EXCEPT !.pc = "compute"]]
    /\ UNCHANGED <<scholar, silver, gold, op>>

\* _compute_topk_in_snowflake(cur, pid, k)
JobCompute(j) ==
    /\ run[j].pc = "compute"
    /\ \E ranking \in Rankings(papers, run[j].paper_id) :
         run' = [run EXCEPT ![j] =
                   [run[j] EXCEPT !.sim_ids = Take(ranking, run[j].k), !.pc = "write"]]
    /\ UNCHANGED <<scholar, silver, gold, papers, op>>

\* _write_similar_ids / the UPDATE of backfill_similar_ids, and the commit.
JobWrite(j) ==
    /\ run[j].pc = "write"
    /\ papers' = WriteCache(papers, run[j].paper_id, run[j].sim_ids)
    /\ op' = CacheWrite(j, run[j].paper_id, run[j].sim_ids)
    /\ run' = [run EXCEPT ![j] = [run[j] EXCEPT !.pc = "done"]]
    /\ UNCHANGED <<scholar, silver, gold>>

\* A corpus snapshot: every row stored, with or without an embedding, no
\* cached neighbours yet.
InitRace ==
    /\ papers \in [RowIds -> {[present |-> TRUE, abstract |-> Abstract, embedding |-> e,
                               similar_embddings_ids |-> NullList] :
                              e \in {NullVec} \cup {Vec(a) : a \in Angles}}]
    /\ silver = NoSilver
    /\ gold = EmptyBag
    /\ op = NoOp
    /\ scholar = NoScholar
    /\ run = [q \in Resolvers \cup Jobs |-> IdleProc]

NextRace ==
    \/ \E r \in Resolvers, paper_id \in RowIds, k \in 1..MaxK : ResolverReadCache(r, paper_id, k)
    \/ \E r \in Resolvers : ResolverHydrate(r)
    \/ \E r \in Resolvers : ResolverQuery(r)
    \/ \E r \in Resolvers : ResolverWrite(r)
    \/ \E j \in Jobs, pid \in RowIds, k \in 1..MaxK : BackfillSelect(j, pid, k)
    \/ \E j \in Jobs, pid \in RowIds, k \in 1..MaxK : BatchFetch(j, pid, k)
    \/ \E j \in Jobs, emb \in Angles : BatchEmbed(j, emb)
    \/ \E j \in Jobs : JobCompute(j)
    \/ \E j \in Jobs : JobWrite(j)

SpecRace == InitRace /\ [][NextRace]_vars

(***************************************************************************)
(* The offline jobs of A2/embedding_worker.py, one whole invocation per    *)
(* step: run_embedding_batch and backfill_similar_ids.                     *)
(***************************************************************************)
MaxLimit == 2

\* An Optional[int] parameter.
None == [isnone |-> TRUE, v |-> 0]
Some(n) == [isnone |-> FALSE, v |-> n]
\* `x and ...` on an Optional[int]: None and 0 are false.
TruthyInt(x) == ~x.isnone /\ x.v # 0

\* SELECT ... LIMIT limit without ORDER BY: any `limit` of the matching rows,
\* or all of them when there are fewer.
Selections(matching, limit) ==
    {ids \in SUBSET matching : Cardinality(ids) = Min(limit, Cardinality(matching))}

\* _fetch_unembedded_from_silver: WHERE embedding IS NULL AND abstract IS NOT NULL
Unembedded(tb) ==
    {id \in RowIds : tb[id].present /\ tb[id].embedding.isnull /\ ~tb[id].abstract.isnull}

\* backfill_similar_ids: WHERE embedding IS NOT NULL AND similar_embddings_ids IS NULL
MissingCache(tb) ==
    {id \in RowIds : HasVector(tb, id) /\ tb[id].similar_embddings_ids.isnull}

\* _update_embeddings(cur, payload): UPDATE ... SET embedding = %s WHERE id = %s
RECURSIVE UpdateEmbeddings(_, _, _)
UpdateEmbeddings(tb, ids, vectors) ==
    IF ids = {} THEN tb
    ELSE LET pid == CHOOSE x \in ids : TRUE
         IN UpdateEmbeddings([tb EXCEPT ![pid].embedding = Vec(vectors[pid])],
                             ids \ {pid}, vectors)

\* _count_embedded_papers
CountEmbeddedPapers(tb) == Cardinality({id \in RowIds : HasVector(tb, id)})

\* _compute_topk_in_snowflake(cur, pid, k): the lists the query may return.
ComputeTopk(tb, pid, k) == {Take(ranking, k) : ranking \in Rankings(tb, pid)}

\* One result of _compute_topk_in_snowflake for each id of the loop.
TopkOfEach(tb, ids, k) ==
    {sims \in [ids -> UNION {ComputeTopk(tb, pid, k) : pid \in ids}] :
        \A pid \in ids : sims[pid] \in ComputeTopk(tb, pid, k)}

\* for pid in ids: the UPDATE that writes json.dumps(sim_ids); a list is
\* written as a list, the empty list included.  The writes leave the
\* embeddings alone, so the order of the ids changes nothing.
WriteSimilarIdsNoneWhenEmpty(tb, pid, sim_ids) ==
    IF sim_ids = <<>> THEN tb ELSE WriteCache(tb, pid, sim_ids)

WriteSimilarIds(tb, pid, sim_ids) == WriteCache(tb, pid, sim_ids)

RECURSIVE WriteEach(_, _, _)
WriteEach(tb, ids, sims) ==
    IF ids = {} THEN tb
    ELSE LET pid == CHOOSE x \in ids : TRUE
         IN WriteEach(WriteSimilarIds(tb, pid, sims[pid]), ids \ {pid}, sims)

\* run_embedding_batch(limit, model_name, populate_similar,
\*                     min_corpus_size_for_neighbors, k)
RunEmbeddingBatch(limit, populate_similar, min_corpus_size_for_neighbors, k) ==
    \E to_embed \in Selections(Unembedded(papers), limit) :
        LET \* `if not abstract: continue`
            ids == {pid \in to_embed : ~Blank(papers[pid].abstract)}
            call == [name |-> "run_embedding_batch", to_embed |-> to_embed, ids |-> ids,
                     populate_similar |-> populate_similar,
                     min_corpus_size_for_neighbors |-> min_corpus_size_for_neighbors,
                     k |-> k, embedded |-> Cardinality(ids)]
        IN IF to_embed = {}
           THEN /\ op' = call
                /\ UNCHANGED <<scholar, silver, gold, papers, run>>
           ELSE \E vectors \in [ids -> Angles] :
                  LET embedded == UpdateEmbeddings(papers, ids, vectors)
                      total == CountEmbeddedPapers(embedded)
                      neighbours == /\ populate_similar
                                    /\ TruthyInt(min_corpus_size_for_neighbors)
                                    /\ total >= min_corpus_size_for_neighbors.v
                  IN /\ papers' \in IF neighbours
                                    THEN {WriteEach(embedded, ids, sims) :
                                            sims \in TopkOfEach(embedded, ids, k)}
                                    ELSE {embedded}
                     /\ op' = call
                     /\ UNCHANGED <<scholar, silver, gold, run>>

\* backfill_similar_ids(limit, k)
BackfillSimilarIds(limit, k) ==
    \E ids \in Selections(MissingCache(papers), limit) :
        /\ \E sims \in TopkOfEach(papers, ids, k) :
              papers' = WriteEach(papers, ids, sims)
        /\ op' = [name |-> "backfill_similar_ids", ids |-> ids, k |-> k,
                  backfilled |-> Cardinality(ids)]
        /\ UNCHANGED <<scholar, silver, gold, run>>

\* The rows as the transformation left them: some embedded already, none
\* with cached neighbours.
InitEmbedding ==
    /\ papers \in [RowIds -> {[present |-> TRUE, abstract |-> Abstract, embedding |-> e,
                               similar_embddings_ids |-> NullList] :
                              e \in {NullVec} \cup {Vec(a) : a \in Angles}}]
    /\ silver = NoSilver
    /\ gold = EmptyBag
    /\ op = NoOp
    /\ scholar = NoScholar
    /\ run = NoRuns

\* The values of min_corpus_size_for_neighbors: the default, zero, and a
\* threshold that some batches reach and others do not.
CorpusThreshold == 2
MinCorpusSizes == {None, Some(0), Some(CorpusThreshold)}

NextEmbedding ==
    \/ \E limit \in 1..MaxLimit, populate_similar \in BOOLEAN,
          min_corpus_size_for_neighbors \in MinCorpusSizes, k \in 1..MaxK :
            RunEmbeddingBatch(limit, populate_similar, min_corpus_size_for_neighbors, k)
    \/ \E limit \in 1..MaxLimit, k \in 1..MaxK : BackfillSimilarIds(limit, k)

SpecEmbedding == InitEmbedding /\ [][NextEmbedding]_vars

\* run_embedding_batch with its default populate_similar and
\* min_corpus_size_for_neighbors, invoked again and again on a corpus
\* nothing else changes.  A row has no abstract, a blank one or a text, and
\* only rows with a text can have been embedded before.
InitBatch ==
    /\ papers \in [RowIds ->
                      {[present |-> TRUE, abstract |-> a, embedding |-> NullVec,
                        similar_embddings_ids |-> NullList] :
                       a \in {NullText, Text(""), Abstract}}
                      \cup {[present |-> TRUE, abstract |-> Abstract, embedding |-> Vec(v),
                             similar_embddings_ids |-> NullList] : v \in Angles}]
    /\ silver = NoSilver
    /\ gold = EmptyBag
    /\ op = NoOp
    /\ scholar = NoScholar
    /\ run = NoRuns

NextBatch ==
    \E limit \in 1..MaxLimit, k \in 1..MaxK : RunEmbeddingBatch(limit, TRUE, None, k)

SpecBatch == InitBatch /\ [][NextBatch]_vars /\ WF_vars(NextBatch)

\* The three operations that write the cache column, one whole invocation
\* per step, from rows whose caches are NULL or name one other paper.
InitCache ==
    /\ papers \in [RowIds -> [present : {TRUE}, abstract : {Abstract},
                               embedding : {NullVec} \cup {Vec(a) : a \in Angles},
                               similar_embddings_ids :
                                   {NullList} \cup {List(<<q>>) : q \in RowIds}]]
    /\ \A p \in RowIds : papers[p].similar_embddings_ids # List(<<p>>)
    /\ silver = NoSilver
    /\ gold = EmptyBag
    /\ op = NoOp
    /\ scholar = NoScholar
    /\ run = NoRuns

NextCache ==
    \/ \E paper_id \in RowIds, k \in 1..MaxK : GetRelatedPapers(paper_id, k)
    \/ \E limit \in 1..MaxLimit, min_corpus_size_for_neighbors \in MinCorpusSizes,
          k \in 1..MaxK :
            RunEmbeddingBatch(limit, TRUE, min_corpus_size_for_neighbors, k)
    \/ \E limit \in 1..MaxLimit, k \in 1..MaxK : BackfillSimilarIds(limit, k)

SpecCache == InitCache /\ [][NextCache]_vars

\* backfill_similar_ids invoked again and again on a corpus nothing else
\* changes.
NextBackfill == \E limit \in 1..MaxLimit, k \in 1..MaxK : BackfillSimilarIds(limit, k)

SpecBackfill == InitEmbedding /\ [][NextBackfill]_vars /\ WF_vars(NextBackfill)

(***************************************************************************)
(* Properties of the graph builder, checked under SpecGraph.               *)
(***************************************************************************)
IsBuild == op.name = "build_knowledge_graph"
IsBulk == op.name = "_bulk_merge_edges"

\* C1: a full-corpus run of build_knowledge_graph that directly follows a
\* full-corpus run on the same, unchanged corpus inserts no edge: the stored
\* edges after the second run are those after the first.
C1_SecondRunInsertsNothing ==
    [][(/\ IsBuild /\ op.paper_id = 0
        /\ op'.name = "build_knowledge_graph" /\ op'.paper_id = 0
        /\ silver' = silver)
         => gold' = gold]_vars

\* C2: whatever builder runs and bulk merges have happened, every
\* (source, target, type) triple is carried by at most one stored row.
C2_AtMostOneEdgePerTriple ==
    \A e \in BagToSet(gold) : Stored(gold, Triple(e)) = 1

\* C2 witness: a run re-merged a triple that was stored before it, and the
\* store still holds that triple once.
C2_Witness ==
    /\ IsBuild
    /\ \E i \in 1..Len(op.log) :
         LET tr == <<op.log[i].source_id, op.log[i].key, "SIMILAR">>
         IN /\ op.log[i].rel = "SIMILAR"
            /\ Stored(op.before, tr) = 1
            /\ Stored(gold, tr) = 1

\* The triples an edge list carries more than once, with different strengths.
RepeatedTriples(edges) ==
    {Triple(edges[i]) : i \in {k \in 1..Len(edges) :
        \E j \in 1..Len(edges) :
            /\ j # k
            /\ Triple(edges[j]) = Triple(edges[k])
            /\ edges[j].strength # edges[k].strength}}

\* C3: after _bulk_merge_edges was given a list that carries a triple several
\* times with different strengths, the store holds exactly one row for that
\* triple, and a row stored before the call still has its strength.
C3_BulkDedup ==
    IsBulk =>
        \A tr \in RepeatedTriples(op.edges) :
            /\ Stored(gold, tr) = 1
            /\ \A e \in BagToSet(op.before) : Triple(e) = tr => BagIn(e, gold)

\* C4: no stored edge has its source as its target.
C4_NoSelfLoop ==
    \A e \in BagToSet(gold) : e.source_paper_id # e.target_paper_id

\* C5: for every similarity-candidate list the builder started to merge, the
\* candidate at every rank index i got its SIMILAR merge, with strength
\* max(0, 1 - 0.1*i) (in tenths: max(0, 10 - i)).
C5_StrengthAtEveryRank ==
    IsBuild =>
        \A c \in 1..Len(op.simCalls) :
            LET p == op.simCalls[c]
                ids == silver[p].similar_embeddings_ids.items
            IN \A r \in 1..Len(ids) :
                 \E j \in 1..Len(op.log) :
                    op.log[j] = Stmt("SIMILAR", p, ids[r], r - 1,
                                     IF 10 - (r - 1) > 0 THEN 10 - (r - 1) ELSE 0)

(***************************************************************************)
(* Properties of the resolver, checked under SpecResolver.                 *)
(***************************************************************************)
\* The state is the one the last get_related_papers call left.
IsGet == op.name = "get_related_papers" /\ op.fresh
HasEmbedding(id) == papers[id].present /\ ~papers[id].embedding.isnull
NoCacheBefore == op.cacheBefore.isnull \/ op.cacheBefore.items = <<>>
\* Similarity of row e to the queried paper, by the embeddings now stored.
ScoreNow(e) == Score(papers[e].embedding.vec, papers[op.paper_id].embedding.vec)
\* The papers a fallback for the queried paper may return.
Eligible ==
    IF HasEmbedding(op.paper_id)
    THEN {e \in RowIds : e # op.paper_id /\ HasEmbedding(e)}
    ELSE {}
Descending(ids) ==
    \A i, j \in 1..Len(ids) : i < j => ScoreNow(ids[i]) >= ScoreNow(ids[j])
NoRepeat(ids) ==
    \A i, j \in 1..Len(ids) : i # j => ids[i] # ids[j]
Ids(ids) == {ids[i] : i \in 1..Len(ids)}

\* C6: with a non-empty cache, get_related_papers(p, k) returns the first k
\* cached ids without those that resolve to no paper, in the cached order,
\* whatever the scores are now, and raises nothing.
C6_CacheOrderPreserved ==
    (IsGet /\ ~NoCacheBefore) =>
        /\ op.exc = "none"
        /\ op.returned = SelectSeq(Take(op.cacheBefore.items, op.k),
                                   LAMBDA id : papers[id].present)
        /\ CacheOf(papers, op.paper_id) = op.cacheBefore

\* C6 witness: a cached list of two was served with one id that resolves to
\* no paper left out and the other returned.
C6_Witness ==
    /\ IsGet /\ op.source = "cache"
    /\ Len(Take(op.cacheBefore.items, op.k)) = 2
    /\ Len(op.returned) = 1
    /\ \E i \in 1..2 : ~papers[op.cacheBefore.items[i]].present

\* C7, first half: for p with an embedding and no cached ids, a call that
\* does not fail returns the k best other papers, best first, and a
\* non-empty result is then p's cache.
C7_FallbackTopK ==
    (IsGet /\ NoCacheBefore /\ HasEmbedding(op.paper_id) /\ op.exc = "none") =>
        /\ Len(op.returned) = Min(op.k, Cardinality(Eligible))
        /\ Ids(op.returned) \subseteq Eligible
        /\ NoRepeat(op.returned)
        /\ Descending(op.returned)
        /\ \A e \in Eligible \ Ids(op.returned) :
             \A i \in 1..Len(op.returned) : ScoreNow(op.returned[i]) >= ScoreNow(e)
        /\ op.returned # <<>> => CacheOf(papers, op.paper_id) = List(op.returned)

\* C7, second half: the next call for the same p and k, whatever embeddings
\* were rewritten in between (p and the returned papers still stored), is
\* served from the cache and returns the same ids in the same order.
C7_NextCallSameOrder ==
    (/\ op.name = "get_related_papers"
     /\ op.source = "fallback" /\ op.exc = "none" /\ op.returned # <<>>
     /\ op' # op /\ op'.fresh
     /\ op'.paper_id = op.paper_id /\ op'.k = op.k
     /\ \A id \in Ids(op.returned) \cup {op.paper_id} : papers[id].present)
        => (op'.source = "cache" /\ op'.returned = op.returned)

\* C7: fallback write-back, both halves.
C7_FallbackWriteBack == [](C7_FallbackTopK) /\ [][C7_NextCallSameOrder]_vars

\* C7 witness: a call served from a cache of two whose order is no longer the
\* order of the scores: the embeddings changed after the fallback wrote it.
C7_Witness ==
    /\ IsGet /\ op.source = "cache" /\ Len(op.returned) = 2
    /\ HasEmbedding(op.paper_id)
    /\ \A i \in 1..2 : HasEmbedding(op.returned[i])
    /\ ScoreNow(op.returned[1]) < ScoreNow(op.returned[2])

\* C8: on the fallback path a result has at most k records, not p, only
\* papers with an embedding, no score rising along it, and all eligible
\* papers when there are fewer than k.
C8_FallbackResult ==
    (IsGet /\ NoCacheBefore /\ op.exc = "none") =>
        /\ Len(op.returned) <= op.k
        /\ \A i \in 1..Len(op.returned) :
             op.returned[i] # op.paper_id /\ HasEmbedding(op.returned[i])
        /\ NoRepeat(op.returned)
        /\ Descending(op.returned)
        /\ Cardinality(Eligible) < op.k => Ids(op.returned) = Eligible

\* C8 witness: a fallback asked for two, with one eligible paper and one
\* stored paper that has no embedding, returned the one.
C8_Witness ==
    /\ IsGet /\ op.source = "fallback" /\ op.k = 2 /\ op.exc = "none"
    /\ Len(op.returned) = 1
    /\ \E e \in RowIds : e # op.paper_id /\ papers[e].present /\ papers[e].embedding.isnull

\* C9: when the write of the cache failed after a fallback computed a
\* non-empty result, the call still returns that result and raises nothing.
C9_WriteFailureSwallowed ==
    (IsGet /\ op.fault # "none" /\ op.results # <<>>) =>
        (op.exc = "none" /\ op.returned = op.results)

\* C10: for a stored p with no cache and no embedding the call returns an
\* empty result, raises nothing, and leaves p's cache as it was.
C10_NoEmbeddingEmpty ==
    (/\ IsGet /\ NoCacheBefore
     /\ papers[op.paper_id].present /\ papers[op.paper_id].embedding.isnull)
        => /\ op.returned = <<>>
           /\ op.exc = "none"
           /\ CacheOf(papers, op.paper_id) = op.cacheBefore

\* C10 witness: such a call, made while another stored paper has an embedding.
C10_Witness ==
    /\ IsGet /\ NoCacheBefore /\ op.k > 0
    /\ papers[op.paper_id].present /\ papers[op.paper_id].embedding.isnull
    /\ \E e \in RowIds : e # op.paper_id /\ HasEmbedding(e)

\* What the caller of get_related_papers observes: the value returned, or the
\* exception raised.
Outcome(o) == [returned |-> o.returned, exc |-> o.exc]

\* C11: a call for a stored paper without an embedding (and without cached
\* ids) that directly follows a call for a paper that has an embedding but
\* no eligible neighbour (same k > 0) gives its caller another outcome than
\* that call did.
C11_MissingEmbeddingDistinct ==
    [][(/\ IsGet /\ NoCacheBefore /\ op.exc = "none"
        /\ HasEmbedding(op.paper_id) /\ Eligible = {}
        /\ op'.name = "get_related_papers" /\ op'.fresh
        /\ op'.paper_id # op.paper_id /\ op.k > 0 /\ op'.k = op.k
        /\ papers[op'.paper_id].present /\ papers[op'.paper_id].embedding.isnull
        /\ (op'.cacheBefore.isnull \/ op'.cacheBefore.items = <<>>))
         => Outcome(op') # Outcome(op)]_vars

\* A citation entry that yields no edge: no external id, or one that no
\* stored paper carries.
Unresolved(sv, p, citation) ==
    \/ citation.ss_paper_id = 0
    \/ CitationSourceRows(sv, p, citation.ss_paper_id) = {}

\* C12: after a builder run, every paper it processed whose citation list
\* has an unresolved entry has a stored CITES edge for each of its resolvable
\* citations and a stored SIMILAR edge for each of its similarity candidates
\* (other than itself).
C12_UnresolvedCitationIsolated ==
    IsBuild =>
        \A n \in 1..Len(op.processed) :
            LET p == op.processed[n]
                cites == silver[p].citation_list.items
                sims == silver[p].similar_embeddings_ids.items
            IN (\E c \in 1..Len(cites) : Unresolved(silver, p, cites[c])) =>
                 /\ \A c \in 1..Len(cites) :
                      ~Unresolved(silver, p, cites[c]) =>
                          \A row \in CitationSourceRows(silver, p, cites[c].ss_paper_id) :
                              Matched(gold, row)
                 /\ \A r \in 1..Len(sims) :
                      sims[r] # p => Stored(gold, <<p, sims[r], "SIMILAR">>) >= 1

\* ceil(n / size)
CeilDiv(n, size) == (n + size - 1) \div size

\* C13: _bulk_merge_edges given n edges ends normally after ceil(n/500)
\* batched writes (none for n = 0) and returns the number of rows the store
\* gained (0 for n = 0).
C13_BatchBoundary ==
    IsBulk =>
        /\ op.exc = "none"
        /\ op.writes = CeilDiv(Len(op.edges), ChunkSize)
        /\ op.returned = BagCardinality(gold) - BagCardinality(op.before)
        /\ op.edges = <<>> => (op.writes = 0 /\ op.returned = 0)

\* C14: for any stored edges and any edge list, _bulk_merge_edges returns a
\* value, and that value is the growth of the stored edge set.
C14_ReturnsInsertedCount ==
    (IsBulk /\ op.edges # <<>>) =>
        /\ op.exc = "none"
        /\ op.returned = BagCardinality(gold) - BagCardinality(op.before)

(***************************************************************************)
(* Properties of the merge functions, checked under SpecMerge.             *)
(***************************************************************************)
IsMerge == op.name = "_merge_relationship"

TriplesOf(edges) == {Triple(edges[i]) : i \in 1..Len(edges)}

\* C16: a call of _bulk_merge_edges that the store does not fail (the
\* re-invocation after a failed batch is such a call) ends normally with
\* every submitted triple stored, and no call removes a row that was stored
\* before it.
C16_ReinvocationCompletes ==
    IsBulk =>
        /\ op.exc = "none"
        /\ \A tr \in TriplesOf(op.edges) : Stored(gold, tr) >= 1
        /\ \A e \in BagToSet(op.before) : CopiesIn(e, gold) >= CopiesIn(e, op.before)

\* C17: after _bulk_merge_edges was given a list that holds a self-loop, no
\* self-loop of the list has been stored by the call, and every other
\* submitted edge has its triple stored.
C17_BulkRejectsSelfLoops ==
    (IsBulk /\ \E i \in 1..Len(op.edges) :
                  op.edges[i].source_paper_id = op.edges[i].target_paper_id) =>
        \A i \in 1..Len(op.edges) :
            LET e == op.edges[i]
            IN IF e.source_paper_id = e.target_paper_id
               THEN Stored(gold, Triple(e)) = Stored(op.before, Triple(e))
               ELSE Stored(gold, Triple(e)) >= 1

\* C18: a full-corpus run that finds no paper to process ends without an
\* exception and leaves the stored edges as they were.
C18_EmptyCorpusCompletes ==
    (IsBuild /\ op.paper_id = 0 /\ op.rows = <<>>) =>
        (op.exc = "none" /\ gold = op.before)

\* C19: a builder run executes no edge MERGE while it iterates over the
\* papers: the edges reach the store only after the loop.
C19_NoWriteWhileIterating ==
    IsBuild => op.log = <<>>

\* The rows a full-corpus run has to process.
FullCorpus == {id \in DOMAIN silver :
                 ~silver[id].citation_list.isnull \/ ~silver[id].similar_embeddings_ids.isnull}

\* C20: a run with a paper id processes that paper and no other; a run with
\* none processes every paper with a non-null citation or similarity list,
\* each once, and no other.
C20_ProcessesSelectedPapers ==
    IsBuild =>
        IF op.paper_id # 0
        THEN op.processed = <<op.paper_id>>
        ELSE /\ {op.processed[i] : i \in 1..Len(op.processed)} = FullCorpus
             /\ Len(op.processed) = Cardinality(FullCorpus)

(***************************************************************************)
(* Properties of concurrent builder invocations, checked under             *)
(* SpecBuilders.                                                           *)
(***************************************************************************)
\* The exception an invocation for these two lists ends with when it runs alone.
AloneExc(similar_ids) ==
    IF Truthy(similar_ids) THEN "UnboundLocalError" ELSE "NameError"

\* C21: under every interleaving of the statements of the invocations that
\* process one paper, each triple is stored at most once, and an invocation
\* that has ended has ended as it does when it runs alone.
C21_ConcurrentBuildersNoDuplicate ==
    /\ \A e \in BagToSet(gold) : Stored(gold, Triple(e)) = 1
    /\ \A b \in Builders :
         run[b].pc = "done" => run[b].exc = AloneExc(run[b].similar_ids)

\* C21 witness: two invocations both started on the empty store, both ran
\* the MERGE of the same edge, and the edge is stored once.
C21_Witness ==
    \E b, c \in Builders :
        /\ b # c
        /\ run[b].pc = "done" /\ run[c].pc = "done"
        /\ run[b].before = EmptyBag /\ run[c].before = EmptyBag
        /\ \E n \in 1..Len(run[b].log), m \in 1..Len(run[c].log) :
             /\ run[b].log[n] = run[c].log[m]
             /\ run[b].log[n].rel = "SIMILAR"
             /\ Stored(gold, <<run[b].paper_id, run[b].log[n].key, "SIMILAR">>) = 1

(***************************************************************************)
(* Properties of racing cache writers, checked under SpecRace.             *)
(***************************************************************************)
\* The invocations that have written the cache and ended.
DoneWriters ==
    {r \in Resolvers : run[r].pc = "done" /\ run[r].source = "fallback" /\ run[r].results # <<>>}
        \cup {j \in Jobs : run[j].pc = "done"}
WrittenBy(q) == IF q \in Resolvers THEN run[q].results ELSE run[q].sim_ids

\* C22: under every interleaving the cache of the paper is the whole list of
\* the last write, and a resolver that computed a list returned that list.
C22_LastWriteWins ==
    /\ op.name = "cache_write" => CacheOf(papers, op.paper_id) = List(op.ids)
    /\ \A r \in Resolvers :
         (run[r].pc = "done" /\ run[r].source = "fallback") =>
             run[r].returned = run[r].results

\* C22 witness: two invocations have written different non-empty lists to the
\* cache of the paper, and the cache holds the list of the one that wrote last.
C22_Witness ==
    /\ op.name = "cache_write" /\ op.ids # <<>>
    /\ CacheOf(papers, op.paper_id) = List(op.ids)
    /\ \E q \in DoneWriters \ {op.by} :
         WrittenBy(q) # <<>> /\ WrittenBy(q) # op.ids

\* C23: when only get_related_papers invocations for one paper and one k
\* have run, on an unchanged corpus, those that have ended have returned the
\* same list, and a non-empty one is the cache of the paper.
C23_ConcurrentFallbacksAgree ==
    (/\ \A j \in Jobs : run[j].pc = "idle"
     /\ \A r, t \in Resolvers :
          (run[r].pc # "idle" /\ run[t].pc # "idle") => run[r].k = run[t].k) =>
        \A r, t \in Resolvers :
            (run[r].pc = "done" /\ run[t].pc = "done") =>
                /\ run[r].returned = run[t].returned
                /\ run[r].returned # <<>> =>
                       CacheOf(papers, run[r].paper_id) = List(run[r].returned)

\* The invocations that have run the similarity query on the corpus as it
\* was at the start, and the list each got.
Computed ==
    {r \in Resolvers : run[r].pc \in {"write", "done"} /\ run[r].source = "fallback"}
        \cup {j \in Jobs : run[j].pc \in {"write", "done"} /\ run[j].kind = "backfill"}

\* C25: while no embedding has changed, any two similarity queries for the
\* paper with the same k have given the same ordered id list.
C25_TiesDeterministic ==
    (\A j \in Jobs : run[j].pc # "idle" => run[j].kind = "backfill") =>
        \A q, t \in Computed :
            run[q].k = run[t].k => WrittenBy(q) = WrittenBy(t)

(***************************************************************************)
(* Restart and termination of the graph builder, checked under SpecGraph.  *)
(***************************************************************************)
\* The store g holds what an uninterrupted full-corpus run over sv leaves:
\* a CITES edge for every resolvable citation and a SIMILAR edge for every
\* similarity candidate of every selected paper.
CompleteGraph(sv, g) ==
    \A p \in {id \in DOMAIN sv : ~sv[id].citation_list.isnull
                                     \/ ~sv[id].similar_embeddings_ids.isnull} :
        LET cites == sv[p].citation_list.items
            sims == sv[p].similar_embeddings_ids.items
        IN /\ \A c \in 1..Len(cites) :
                cites[c].ss_paper_id # 0 =>
                    \A row \in CitationSourceRows(sv, p, cites[c].ss_paper_id) :
                        Matched(g, row)
           /\ \A r \in 1..Len(sims) : Stored(g, <<p, sims[r], "SIMILAR">>) >= 1

\* C24: a full-corpus run that follows an aborted full-corpus run ends
\* normally and leaves the store complete.
C24_RestartCompletes ==
    [][(/\ IsBuild /\ op.paper_id = 0 /\ op.exc # "none"
        /\ op'.name = "build_knowledge_graph" /\ op'.paper_id = 0
        /\ op' # op)
         => (op'.exc = "none" /\ CompleteGraph(silver', gold'))]_vars

\* C28: every invocation of build_knowledge_graph (the store never fails
\* here) ends without an exception, past its report step.
C28_RunTerminatesNormally ==
    IsBuild => op.exc = "none"

(***************************************************************************)
(* Direction of the CITES edges, checked under SpecCitations.              *)
(***************************************************************************)
\* C26: every stored CITES edge (s, t) is a citation of t by s in the
\* citation graph the data was fetched from.
C26_CitesPointsToCited ==
    \A e \in BagToSet(gold) :
        e.relationship_type = "CITES" =>
            <<silver[e.source_paper_id].ss_id, silver[e.target_paper_id].ss_id>> \in scholar

(***************************************************************************)
(* Store failures, checked under SpecStoreFailure.                         *)
(***************************************************************************)
\* The edges the store holds that were not there when invocation b began.
InsertedSince(b) == BagCardinality(gold) - BagCardinality(run[b].before)

\* C27: an invocation that a store failure ended after it had stored edges,
\* and that ran with no other invocation beside it, has handed its caller a
\* count of edges, and the count is the number of edges the run has put into
\* the store.
C27_FailureReportsCommittedCount ==
    \A b \in Builders :
        (/\ run[b].pc = "done"
         /\ run[b].exc = "StoreError"
         /\ InsertedSince(b) > 0
         /\ \A c \in Builders \ {b} : run[c].pc = "idle")
        => (run[b].reported.bound /\ run[b].reported.v = InsertedSince(b))

(***************************************************************************)
(* The embedding batch, checked under SpecEmbedding.                       *)
(***************************************************************************)
IsBatch == op.name = "run_embedding_batch"

\* C29: after run_embedding_batch with populate_similar = True and the
\* default min_corpus_size_for_neighbors has embedded at least one paper,
\* the cache of every paper it embedded holds a top-k list of that paper.
C29_BatchStoresNeighbours ==
    (/\ IsBatch
     /\ op.populate_similar
     /\ op.min_corpus_size_for_neighbors = None
     /\ op.embedded >= 1)
    => \A pid \in op.ids :
          /\ ~papers[pid].similar_embddings_ids.isnull
          /\ papers[pid].similar_embddings_ids.items \in ComputeTopk(papers, pid, op.k)

(***************************************************************************)
(* The backfill job, checked under SpecBackfill.                           *)
(***************************************************************************)
IsBackfill == op.name = "backfill_similar_ids"

MaxRank == 12

\* C31: every stored edge is a CITES or a SIMILAR edge with a strength in
\* [0.0, 1.0], every stored CITES edge has strength 1.0, and the strength
\* _merge_similars computes is in [0.0, 1.0] at every rank index.
C31_EdgeShape ==
    /\ \A e \in BagToSet(gold) :
          /\ e.relationship_type \in {"CITES", "SIMILAR"}
          /\ e.strength \in 0..10
          /\ e.relationship_type = "CITES" => e.strength = 10
    /\ IsBuild => \A idx \in 0..MaxRank : Strength(idx) \in 0..10

\* C31 witness: a run has stored a CITES edge and a SIMILAR edge.
C31_Witness ==
    /\ IsBuild
    /\ \E e, f \in BagToSet(gold) :
          e.relationship_type = "CITES" /\ f.relationship_type = "SIMILAR"

\* The rank indices (counted from 0) at which a target occurs in a list.
RanksOf(ids, t) == {i - 1 : i \in {j \in 1..Len(ids) : ids[j] = t}}

\* C32: after a run for one paper whose similarity list holds a target at
\* several rank indices, with no SIMILAR edge to that target stored before,
\* exactly one SIMILAR edge to the target is stored, with the strength of
\* the lowest of these rank indices.
C32_FirstOccurrenceWins ==
    (IsBuild /\ op.paper_id # 0) =>
        LET p == op.paper_id
            ids == silver[p].similar_embeddings_ids.items
        IN \A t \in PaperIds :
             (/\ Cardinality(RanksOf(ids, t)) >= 2
              /\ Stored(op.before, <<p, t, "SIMILAR">>) = 0)
             => LET first == CHOOSE i \in RanksOf(ids, t) : \A j \in RanksOf(ids, t) : i <= j
                IN /\ Stored(gold, <<p, t, "SIMILAR">>) = 1
                   /\ Edge(p, t, "SIMILAR", Strength(first)) \in BagToSet(gold)

\* The rows a run has added to the store.
InsertedRows == {e \in BagToSet(gold) : CopiesIn(e, gold) > CopiesIn(e, op.before)}

\* C33: every row a run has added has a paper the run processed as its
\* source, and a run for one paper p has added rows of source p only and
\* left the rows of every other source as they were.
C33_EdgesLeaveProcessedPaper ==
    IsBuild =>
        /\ \A e \in InsertedRows :
              \E i \in 1..Len(op.processed) : e.source_paper_id = op.processed[i]
        /\ op.paper_id # 0 =>
              /\ \A e \in InsertedRows : e.source_paper_id = op.paper_id
              /\ \A e \in BagToSet(gold) \cup BagToSet(op.before) :
                    e.source_paper_id # op.paper_id
                        => CopiesIn(e, gold) = CopiesIn(e, op.before)

\* C33 witness: a run for paper p has added SIMILAR(p, q), no SIMILAR(q, p)
\* is stored, and a row of another source was stored before the run.
C33_Witness ==
    /\ IsBuild /\ op.paper_id # 0
    /\ \E e \in InsertedRows :
          /\ e.relationship_type = "SIMILAR"
          /\ e.target_paper_id # e.source_paper_id
          /\ Stored(gold, <<e.target_paper_id, e.source_paper_id, "SIMILAR">>) = 0
    /\ \E f \in BagToSet(op.before) : f.source_paper_id # op.paper_id

\* C34: a run of build_knowledge_graph, with or without a paper id, leaves
\* the paper store as it was: the same rows with the same fields.
C34_BuildOnlyReadsPapers ==
    [][op'.name = "build_knowledge_graph" => silver' = silver]_vars

(***************************************************************************)
(* What a resolver call writes, checked under SpecResolver.                *)
(***************************************************************************)
\* The step is a call of get_related_papers.
GetStep == op'.name = "get_related_papers" /\ op'.fresh

\* C35: a call of get_related_papers(p, k) changes nothing but the cache of
\* p, changes it only after a fallback with a non-empty result, to that
\* result, and changes nothing when the fallback result is empty.
C35_WriteOnlyAfterNonEmptyFallback ==
    [][GetStep =>
         LET p == op'.paper_id
         IN /\ \A q \in RowIds \ {p} : papers'[q] = papers[q]
            /\ papers'[p].present = papers[p].present
            /\ papers'[p].embedding = papers[p].embedding
            /\ papers'[p] # papers[p] =>
                  /\ op'.source = "fallback" /\ op'.results # <<>>
                  /\ papers'[p].similar_embddings_ids = List(op'.results)
            /\ (op'.source = "fallback" /\ op'.results = <<>>) => papers' = papers]_vars

\* C35 witness: a fallback for a paper with an embedding and k > 0 found no
\* other embedded paper, and the cache of the paper is still the NULL it was.
C35_Witness ==
    /\ IsGet /\ op.source = "fallback" /\ op.results = <<>> /\ op.k > 0
    /\ HasEmbedding(op.paper_id)
    /\ op.cacheBefore = NullList
    /\ papers[op.paper_id].similar_embddings_ids = NullList

\* The cached ids, in cached order, that are ids of stored papers.
RECURSIVE StoredOf(_)
StoredOf(ids) ==
    IF ids = <<>> THEN <<>>
    ELSE (IF papers[Head(ids)].present THEN <<Head(ids)>> ELSE <<>>) \o StoredOf(Tail(ids))

\* C36: a call get_related_papers(p, k) that finds a cache with a non-empty
\* k-prefix is served from the cache: it computes no ranking, writes
\* nothing, and returns the stored papers among the prefix, which is the
\* empty result when none of them is stored any more.
C36_NonEmptyCacheWins ==
    [][(/\ GetStep
        /\ papers[op'.paper_id].present
        /\ ~papers[op'.paper_id].similar_embddings_ids.isnull
        /\ Take(papers[op'.paper_id].similar_embddings_ids.items, op'.k) # <<>>)
       => /\ op'.source = "cache" /\ op'.results = <<>>
          /\ papers' = papers /\ gold' = gold /\ silver' = silver
          /\ op'.returned =
                StoredOf(Take(papers[op'.paper_id].similar_embddings_ids.items, op'.k))]_vars

\* C36 witness: a call was served from a cache of which no id is a stored
\* paper any more and returned nothing, although the paper has an embedding
\* and another stored paper has one.
C36_Witness ==
    /\ IsGet /\ op.source = "cache" /\ op.returned = <<>>
    /\ HasEmbedding(op.paper_id)
    /\ \E e \in RowIds : e # op.paper_id /\ HasEmbedding(e)

(***************************************************************************)
(* The cache column under all its writers, checked under SpecCache.        *)
(***************************************************************************)
\* C37: no paper is in its own cached neighbour list.
C37_CacheExcludesSelf ==
    \A p \in RowIds :
        \A i \in 1..Len(papers[p].similar_embddings_ids.items) :
            papers[p].similar_embddings_ids.items[i] # p

\* C37 witness: the batch job has just embedded papers and written each of
\* them a list of all the other papers (longer than any initial cache), and
\* every other paper has cached neighbours too.
C37_Witness ==
    /\ IsBatch /\ op.ids # {}
    /\ \A p \in op.ids : Len(papers[p].similar_embddings_ids.items) = NRows - 1
    /\ \A p \in RowIds : papers[p].similar_embddings_ids.items # <<>>

(***************************************************************************)
(* The cache over successive resolver calls, checked under SpecResolver.   *)
(***************************************************************************)
\* C38: a call of get_related_papers(p, k) that returns and has changed the
\* cache of p has made it the id sequence it returns, of length at most k;
\* a call that finds a non-empty cache of a stored p leaves it as it is and
\* returns no more records than the cache has ids, whatever k is.
C38_CacheIsReturnedAndFrozen ==
    [][GetStep =>
         LET p == op'.paper_id
             cache == papers[p].similar_embddings_ids
         IN /\ (papers'[p] # papers[p] /\ op'.exc = "none") =>
                  /\ papers'[p].similar_embddings_ids = List(op'.returned)
                  /\ Len(op'.returned) <= op'.k
            /\ (papers[p].present /\ ~cache.isnull /\ cache.items # <<>>) =>
                  /\ papers'[p] = papers[p]
                  /\ Len(op'.returned) <= Len(cache.items)]_vars

\* C38 witness: a call with k above the length of the cache was served from
\* the cache and returned as many records as the cache has ids, fewer than
\* k and fewer than there are eligible neighbours.
C38_Witness ==
    /\ IsGet /\ op.source = "cache"
    /\ papers[op.paper_id].similar_embddings_ids = op.cacheBefore
    /\ Len(op.cacheBefore.items) < op.k
    /\ Len(op.returned) = Len(op.cacheBefore.items)
    /\ Len(op.returned) < Cardinality(Eligible)

(***************************************************************************)
(* Growth of the relationship store, checked under SpecGrowth.             *)
(***************************************************************************)
\* C39: no step removes or changes a stored row: every row is stored after
\* the step at least as often as before it.
C39_GrowOnly ==
    [][\A e \in BagToSet(gold) : CopiesIn(e, gold') >= CopiesIn(e, gold)]_vars

\* C39 witness: paper p has been rebuilt after its citation list lost the
\* entry for paper t, and the edge (p, t, CITES) of the earlier run is still
\* stored.
C39_Witness ==
    /\ IsBuild /\ op.paper_id # 0
    /\ \E e \in BagToSet(gold) :
          /\ e.relationship_type = "CITES"
          /\ e.source_paper_id = op.paper_id
          /\ e \in BagToSet(op.before)
          /\ ~silver[op.paper_id].citation_list.isnull
          /\ \A i \in 1..Len(silver[op.paper_id].citation_list.items) :
                silver[op.paper_id].citation_list.items[i].ss_paper_id
                    # silver[e.target_paper_id].ss_id

(***************************************************************************)
(* Progress of the embedding batch, checked under SpecBatch.               *)
(***************************************************************************)
\* Every paper with a non-blank abstract has an embedding.
AllEmbedded ==
    \A p \in RowIds : (papers[p].present /\ ~Blank(papers[p].abstract)) => HasVector(papers, p)

\* C40: with run_embedding_batch invoked again and again on a fixed corpus,
\* whichever rows the store returns within the limit, from some point on
\* every paper with a non-blank abstract has an embedding, and an
\* invocation made then reports embedded 0.
C40_BatchCompletes ==
    /\ <>[]AllEmbedded
    /\ <>(AllEmbedded /\ IsBatch /\ op.embedded = 0)

====
